---- MODULE Spec2Model ----
(***************************************************************************)
(* Model of cvpysdk's exception catalog (cvpysdk/exception.py) and of the  *)
(* Virtual Server instance class (cvpysdk/instances/vsinstance.py).        *)
(*                                                                         *)
(* Python values are modelled as follows.  A dict is a function whose      *)
(* domain is its set of keys; None is the record None; an attribute that   *)
(* was never assigned is the record Unset.  The elements of the list given *)
(* to the associated_clients setter carry their Python type, so that       *)
(* isinstance(x, str) is a test and not an assumption.                     *)
(***************************************************************************)
EXTENDS Integers, Sequences, FiniteSets, TLC

VARIABLES
    server,                    \* instance properties document held by the CommServe
    obj,                       \* class of the object the last construction produced
    _properties,               \* Instance._properties
    _instance,                 \* Instance._instance
    _instanceActivityControl,  \* Instance._instanceActivityControl
    _virtualserverinstance,    \* VirtualServerInstance._virtualserverinstance
    _vsinstancetype,           \* VirtualServerInstance._vsinstancetype
    _asscociatedclients,       \* VirtualServerInstance._asscociatedclients
    call,                      \* the operation invoked last, with its arguments
    ret,                       \* what that operation returned
    raised,                    \* the exception that operation raised, or NoException
    sent,                      \* updates that operation handed to _set_instance_properties
    lookups                    \* commcell lookups made by that operation, in order

vars == <<server, obj, _properties, _instance, _instanceActivityControl,
          _virtualserverinstance, _vsinstancetype, _asscociatedclients,
          call, ret, raised, sent, lookups>>

fields == <<_properties, _instance, _instanceActivityControl,
            _virtualserverinstance, _vsinstancetype, _asscociatedclients>>

(***************************************************************************)
(* Bounds of the model.                                                    *)
(***************************************************************************)
MaxClients == 2

(***************************************************************************)
(* Python values.                                                          *)
(***************************************************************************)
None == [NoneType |-> TRUE]

Unset == [unset |-> TRUE]

EmptyDict == [k \in {} |-> TRUE]

PyStr(s) == [type |-> "str", value |-> s]

PyInt(i) == [type |-> "int", value |-> i]

NoException == [kind |-> "none"]

KeyError(k) == [kind |-> "KeyError", key |-> k]

TypeError == [kind |-> "TypeError"]

AttributeError(a) == [kind |-> "AttributeError", attr |-> a]

(***************************************************************************)
(* cvpysdk/exception.py                                                    *)
(***************************************************************************)
EXCEPTION_DICT ==
    "Response" :> (
        "101" :> "Response was not success" @@
        "102" :> "Response received is empty") @@
    "Commcell" :> (
        "101" :> "Commcell is not reachable. Please check the commcell name and services again" @@
        "102" :> "Authtoken not received. Please try again." @@
        "103" :> "Failed to get the CommServ details" @@
        "104" :> "Failed to send an email to specified user") @@
    "CVPySDK" :> (
        "101" :> "Failed to Login with the credentials provided" @@
        "102" :> "" @@
        "103" :> "Reached the maximum attempts limit" @@
        "104" :> "This session has expired. Please login again" @@
        "105" :> "Script Type is not valid") @@
    "Client" :> (
        "101" :> "Data type of the input(s) is not valid" @@
        "102" :> "" @@
        "103" :> "Time Value should be greater than current time" @@
        "104" :> "Time Value entered is not of correct format" @@
        "105" :> "Script Type is not supported" @@
        "106" :> "Failed to get the instance" @@
        "107" :> "Service Restart timed out") @@
    "Agent" :> (
        "101" :> "Data type of the input(s) is not valid" @@
        "102" :> "" @@
        "103" :> "Time Value should be greater than current time" @@
        "104" :> "Time Value entered is not of correct format") @@
    "Backupset" :> (
        "101" :> "Data type of the input(s) is not valid" @@
        "102" :> "") @@
    "Instance" :> (
        "101" :> "Data type of the input(s) is not valid" @@
        "102" :> "" @@
        "103" :> "Input date is incorrect" @@
        "104" :> "Instance Level Browse is not supported. Instance should have a single backupset") @@
    "Subclient" :> (
        "101" :> "Data type of the input(s) is not valid" @@
        "102" :> "" @@
        "103" :> "Backup Level not identified. Please check the backup level again" @@
        "104" :> "File/Folder(s) to restore list is empty" @@
        "105" :> "Type of client should either be the Client class instance or string" @@
        "106" :> "Input date is incorrect" @@
        "107" :> "End Date should be greater than the Start Date" @@
        "108" :> "Time Value should be greater than current time" @@
        "109" :> "Time Value entered is not of correct format" @@
        "110" :> "No data found at the path specified" @@
        "111" :> "No File/Folder matched the input value" @@
        "112" :> "Method Not Implemented" @@
        "113" :> "Type of instance should either be the Instance class instance or string" @@
        "114" :> "Type of backupset should either be the Backupset class instance or string") @@
    "Job" :> (
        "101" :> "Incorrect JobId" @@
        "102" :> "" @@
        "103" :> "No job exists with the specified Job ID" @@
        "104" :> "No records found for this Job") @@
    "Storage" :> (
        "101" :> "Data type of the input(s) is not valid" @@
        "102" :> "" @@
        "103" :> "Type of media agent should either be the MediaAgent class instance or string" @@
        "104" :> "Type of library should either be the DiskLibrary class instance or string" @@
        "105" :> "No storage policies exist for this user") @@
    "Schedules" :> (
        "101" :> "Invalid Class object passed as argument to the Schedules class" @@
        "102" :> "Data type of the input(s) is not valid") @@
    "ClientGroup" :> (
        "101" :> "Data type of the input(s) is not valid" @@
        "102" :> "" @@
        "103" :> "Time Value should be greater than current time" @@
        "104" :> "Time Value entered is not of correct format") @@
    "UserGroup" :> (
        "101" :> "Data type of the input(s) is not valid" @@
        "102" :> "") @@
    "Domain" :> (
        "101" :> "Data type of the input(s) is not valid" @@
        "102" :> "") @@
    "Alert" :> (
        "101" :> "Data type of the input(s) is not valid" @@
        "102" :> "") @@
    "Workflow" :> (
        "101" :> "Data type of the input(s) is not valid" @@
        "102" :> "" @@
        "103" :> "Input is not valid XML / file path" @@
        "104" :> "No Workflow exists with the given name") @@
    "Datacube" :> (
        "101" :> "Data type of the input(s) is not valid" @@
        "102" :> "" @@
        "103" :> "Failed to get the list of analytics engines" @@
        "104" :> "Failed to get the datasources") @@
    "GlobalFilter" :> (
        "101" :> "Data type of the input(s) is not valid" @@
        "102" :> "") @@
    "Plan" :> (
        "101" :> "Data type of the input(s) is not valid" @@
        "102" :> "") @@
    "Salesforce" :> (
        "101" :> "Neither Sync Database enabled nor user provided database details for restore" @@
        "102" :> "") @@
    "Metrics" :> (
        "101" :> "Invalid input(s) specified") @@
    "InternetOptions" :> (
        "101" :> "Invalid input(s) specified") @@
    "Virtual Machine" :> (
        "101" :> "Data type of the input(s) is not valid" @@
        "102" :> "") @@
    "User" :> (
        "101" :> "Data type of input(s) is not valid" @@
        "102" :> "") @@
    "Security" :> (
        "101" :> "Data type of input(s) is not valid" @@
        "102" :> "") @@
    "DownloadCenter" :> (
        "101" :> "Response received is not a proper XML. Please check the XML" @@
        "102" :> "" @@
        "103" :> "Category does not exist at Download Center" @@
        "104" :> "Category already exists at Download Center" @@
        "105" :> "Sub Category already exists for the given Category at Download Center" @@
        "106" :> "Package does not exist at Download Center. Please check the name again" @@
        "107" :> "Failed to download the package" @@
        "108" :> "Category does not exists at Download Center" @@
        "109" :> "Sub Category does not exists at Download Center" @@
        "110" :> "Multiple platforms available. Please specify the platform" @@
        "111" :> "Multiple download types available for this platform. Please specify the download type" @@
        "112" :> "Package is not available for the given platform" @@
        "113" :> "Package is not available for the given download type" @@
        "114" :> "Package already exists with the given name" @@
        "115" :> "Version is not available on Download Center" @@
        "116" :> "Platform is not supported on Download Center" @@
        "117" :> "Download Type is not supported on Download Center" @@
        "118" :> "File is not a valid README file" @@
        "119" :> "Failed to upload the package") @@
    "Organization" :> (
        "101" :> "Data type of the input(s) is not valid" @@
        "102" :> "" @@
        "103" :> "No organization exists with the given name" @@
        "104" :> "Failed to delete the organization" @@
        "105" :> "Email address is not valid" @@
        "106" :> "Organization already exists" @@
        "107" :> "Failed to add organization" @@
        "108" :> "Failed to enable Auth Code Generation for the Organization" @@
        "109" :> "Failed to disable Auth Code Generation for the Organization" @@
        "110" :> "Failed to update the properties of the Organization" @@
        "111" :> "Plan is not associated with the organization. Add plan to the Organization, and then set it as the default") @@
    "StoragePool" :> (
        "101" :> "Data type of the input(s) is not valid" @@
        "102" :> "" @@
        "103" :> "No storage pool exists with the given name") @@
    "Monitoring" :> (
        "101" :> "Data type of the input(s) is not valid" @@
        "102" :> "")

\* a join that uses a blank where the code uses a newline
JoinBlank(a, b) == a \o " " \o b

\* '\n'.join([a, b])
Join(a, b) == a \o "\n" \o b

\* SDKException(exception_module, exception_id, exception_message): the
\* exception object built, or the KeyError of the catalog lookup.
SDKException(exception_module, exception_id, exception_message) ==
    IF exception_module \notin DOMAIN EXCEPTION_DICT
    THEN KeyError(exception_module)
    ELSE IF exception_id \notin DOMAIN EXCEPTION_DICT[exception_module]
    THEN KeyError(exception_id)
    ELSE LET base == EXCEPTION_DICT[exception_module][exception_id]
         IN  [kind |-> "SDKException",
              exception_module |-> exception_module,
              exception_id |-> exception_id,
              exception_message |->
                  IF exception_message # ""
                  THEN IF base # ""
                       THEN Join(base, exception_message)
                       ELSE exception_message
                  ELSE base]

(***************************************************************************)
(* Collaborators of cvpysdk/instances/vsinstance.py: the hypervisor_type   *)
(* enumeration of cvpysdk/constants.py, str.lower, the commcell's client   *)
(* and client group collections, and the documents the server can hold.    *)
(***************************************************************************)
VIRTUAL_CENTER == "VirtualCenter"

MS_VIRTUAL_SERVER == "MS Virtual Server"

AMAZON == "Amazon"

AZURE == "Azure"

AZURE_V2 == "Azure V2"

UpperCase == "ABCDEFGHIJKLMNOPQRSTUVWXYZ"

LowerCase == "abcdefghijklmnopqrstuvwxyz"

lower_char(c) ==
    IF \E i \in 1..Len(UpperCase) : SubSeq(UpperCase, i, i) = c
    THEN LET i == CHOOSE j \in 1..Len(UpperCase) : SubSeq(UpperCase, j, j) = c
         IN  SubSeq(LowerCase, i, i)
    ELSE c

RECURSIVE lower(_)
\* str.lower()
lower(s) ==
    IF Len(s) = 0 THEN s
    ELSE lower_char(SubSeq(s, 1, 1)) \o lower(SubSeq(s, 2, Len(s)))

\* names known to commcell.clients and to commcell.client_groups
Clients == {"c1", "c2"}

ClientGroups == {"g1"}

has_client(client_name) == client_name.value \in Clients

has_clientgroup(client_name) == client_name.value \in ClientGroups

\* elements a caller can put in the list given to the setter
Entries == {PyStr("c1"), PyStr("c2"), PyStr("g1"), PyStr("zz"), PyInt(7)}

RECURSIVE SeqsUpTo(_, _)
SeqsUpTo(S, n) ==
    IF n = 0 THEN {<<>>}
    ELSE LET shorter == SeqsUpTo(S, n - 1)
         IN  shorter \cup {Append(q, e) : q \in {r \in shorter : Len(r) = n - 1}, e \in S}

ClientLists == SeqsUpTo(Entries, MaxClients)

\* instance names a caller can construct an instance with
InstanceNames ==
    {"virtualcenter", "VirtualCenter", "VIRTUALCENTER",
     "ms virtual server", "MS Virtual Server",
     "amazon", "Amazon", "azure", "AZURE", "azure v2", "Azure V2",
     "oracle", ""}

InstanceEntity == [instanceName |-> "virtualcenter", instanceId |-> 2]

ActivityControl == [enableBackup |-> TRUE]

ClientEntity(name) ==
    [client |-> [clientName |-> name, srmReportSet |-> 0, type |-> 0,
                 srmReportType |-> 0, clientSidePackage |-> TRUE,
                 _type_ |-> 28, consumeLicense |-> TRUE]]

ClientGroupEntity(name) == [clientGroup |-> [clientGroupName |-> name]]

\* associatedClients blocks the server can hold without this SDK's doing
ServerAssociatedClients ==
    {EmptyDict,
     [memberServers |-> <<ClientEntity(PyStr("c1"))>>],
     [memberServers |-> <<ClientEntity(PyStr("c1")), ClientGroupEntity(PyStr("g1"))>>]}

ServerVSInstances ==
    [vsInstanceType : {PyInt(101)}, associatedClients : ServerAssociatedClients]
        \cup {[vsInstanceType |-> PyInt(401),
               associatedClients |-> [memberServers |-> <<ClientEntity(PyStr("g1"))>>]]}
        \cup [vsInstanceType : {PyInt(101)}]
        \cup [associatedClients : {[memberServers |-> <<ClientEntity(PyStr("c1"))>>]}]

GenericDocument ==
    [instance |-> InstanceEntity, instanceActivityControl |-> ActivityControl]

VSDocument(vsi) ==
    [instance |-> InstanceEntity, instanceActivityControl |-> ActivityControl,
     virtualServerInstance |-> vsi]

ServerDocuments == {GenericDocument} \cup {VSDocument(v) : v \in ServerVSInstances}

\* documents the server can hold when the instance is constructed
InitialDocuments ==
    {GenericDocument} \cup
    {VSDocument(v) : v \in [vsInstanceType : {PyInt(101)},
                            associatedClients : ServerAssociatedClients]}

\* answers of the server to a properties request
Responses(doc) ==
    {[success |-> TRUE, properties |-> doc],
     [success |-> FALSE, empty |-> FALSE],
     [success |-> FALSE, empty |-> TRUE]}

PyList(s) == [type |-> "list", value |-> s]

Object(cls) == [class |-> cls]

Unbound == [unbound |-> TRUE]

\* no attribute of the object has been assigned
Clear ==
    /\ _properties' = Unset
    /\ _instance' = Unset
    /\ _instanceActivityControl' = Unset
    /\ _virtualserverinstance' = Unset
    /\ _vsinstancetype' = Unset
    /\ _asscociatedclients' = Unset

\* what Instance._get_instance_properties raises on the server's answer
Instance_properties_raised(response) ==
    IF response.success THEN NoException
    ELSE SDKException("Response", IF response.empty THEN "102" ELSE "101", "")

\* Instance._get_instance_properties on a successful answer: the generic
\* fields of the instance
Instance_get_instance_properties(response) ==
    /\ _properties' = response.properties
    /\ _instance' = response.properties.instance
    /\ _instanceActivityControl' = response.properties.instanceActivityControl

(***************************************************************************)
(* cvpysdk/instances/vsinstance.py                                         *)
(***************************************************************************)
\* hv_type.<NAME>.value.lower(), the five values __new__ compares with
virtual_center == lower(VIRTUAL_CENTER)

ms_virtual_server == lower(MS_VIRTUAL_SERVER)

amazon == lower(AMAZON)

azure == lower(AZURE)

azure_v2 == lower(AZURE_V2)

\* VirtualServerInstance.__new__: the object created, or None
__new__(instance_name) ==
    IF instance_name = virtual_center THEN Object("VMwareInstance")
    ELSE IF instance_name = ms_virtual_server THEN Object("HyperVInstance")
    ELSE IF instance_name = amazon THEN Object("AmazonInstance")
    ELSE IF instance_name = azure THEN Object("AzureInstance")
    ELSE IF instance_name = azure_v2 THEN Object("AzureRMInstance")
    ELSE None

\* what VirtualServerInstance._get_instance_properties raises
properties_raised(response) ==
    IF Instance_properties_raised(response) # NoException
    THEN Instance_properties_raised(response)
    ELSE IF "virtualServerInstance" \notin DOMAIN response.properties
    THEN NoException
    ELSE IF "vsInstanceType" \notin DOMAIN response.properties["virtualServerInstance"]
    THEN KeyError("vsInstanceType")
    ELSE IF "associatedClients" \notin DOMAIN response.properties["virtualServerInstance"]
    THEN KeyError("associatedClients")
    ELSE NoException

\* _get_instance_properties without the two assignments of None
KeepingOldFields(response, old) ==
    IF ~response.success
    THEN UNCHANGED fields
    ELSE
    /\ Instance_get_instance_properties(response)
    /\ IF "virtualServerInstance" \in DOMAIN _properties'
       THEN /\ _virtualserverinstance' = _properties'["virtualServerInstance"]
            /\ IF "vsInstanceType" \notin DOMAIN _virtualserverinstance'
               THEN UNCHANGED <<_vsinstancetype, _asscociatedclients>>
               ELSE /\ _vsinstancetype' = _virtualserverinstance'["vsInstanceType"]
                    /\ IF "associatedClients" \notin DOMAIN _virtualserverinstance'
                       THEN UNCHANGED _asscociatedclients
                       ELSE _asscociatedclients' =
                                _virtualserverinstance'["associatedClients"]
       ELSE /\ _virtualserverinstance' = old
            /\ UNCHANGED <<_vsinstancetype, _asscociatedclients>>

\* VirtualServerInstance._get_instance_properties: the attributes after the
\* call; old is _virtualserverinstance before it.  The two fields are None
\* (lines 81-82) wherever lines 85 and 86 are not reached.
_get_instance_properties(response, old) ==
    IF ~response.success
    THEN UNCHANGED fields
    ELSE
    /\ Instance_get_instance_properties(response)
    /\ IF "virtualServerInstance" \in DOMAIN _properties'
       THEN /\ _virtualserverinstance' = _properties'["virtualServerInstance"]
            /\ IF "vsInstanceType" \notin DOMAIN _virtualserverinstance'
               THEN /\ _vsinstancetype' = None
                    /\ _asscociatedclients' = None
               ELSE /\ _vsinstancetype' = _virtualserverinstance'["vsInstanceType"]
                    /\ IF "associatedClients" \notin DOMAIN _virtualserverinstance'
                       THEN _asscociatedclients' = None
                       ELSE _asscociatedclients' =
                                _virtualserverinstance'["associatedClients"]
       ELSE /\ _virtualserverinstance' = old
            /\ _vsinstancetype' = None
            /\ _asscociatedclients' = None

\* a loop over memberServers that returns from inside its first iteration
FirstClientName(memberServers, acc) ==
    IF memberServers = <<>> THEN [names |-> acc, raised |-> NoException]
    ELSE LET client == Head(memberServers)
         IN  IF "client" \notin DOMAIN client
             THEN [names |-> acc, raised |-> KeyError("client")]
             ELSE [names |-> Append(acc, client["client"]["clientName"]),
                   raised |-> NoException]

RECURSIVE client_names(_, _)
\* the loop of the getter over memberServers, names collected so far in acc
client_names(memberServers, acc) ==
    IF memberServers = <<>> THEN [names |-> acc, raised |-> NoException]
    ELSE LET client == Head(memberServers)
         IN  IF "client" \notin DOMAIN client
             THEN [names |-> acc, raised |-> KeyError("client")]
             ELSE client_names(Tail(memberServers),
                               Append(acc, client["client"]["clientName"]))

\* VirtualServerInstance.associated_clients (getter), on the value of
\* self._asscociatedclients.  The list it collects the names in,
\* self._associated_clients, is started afresh by every call and read by
\* nothing else; it is the acc of client_names and the value returned.
associated_clients(asscociatedclients) ==
    IF asscociatedclients = None
    THEN [ret |-> None, raised |-> TypeError]
    ELSE IF "memberServers" \in DOMAIN asscociatedclients
    THEN LET r == client_names(asscociatedclients["memberServers"], <<>>)
         IN  [ret |-> IF r.raised = NoException THEN PyList(r.names) ELSE None,
              raised |-> r.raised]
    ELSE [ret |-> None, raised |-> NoException]

\* VirtualServerInstance._get_instance_properties_json, on the value of
\* self._virtualserverinstance
_get_instance_properties_json(virtualserverinstance) ==
    IF virtualserverinstance = Unset
    THEN [raised |-> AttributeError("_virtualserverinstance"), json |-> None]
    ELSE IF "vsInstanceType" \notin DOMAIN virtualserverinstance
    THEN [raised |-> KeyError("vsInstanceType"), json |-> None]
    ELSE IF "associatedClients" \notin DOMAIN virtualserverinstance
    THEN [raised |-> KeyError("associatedClients"), json |-> None]
    ELSE [raised |-> NoException,
          json |-> [instanceProperties |->
                      [isDeleted |-> FALSE,
                       instance |-> _instance,
                       instanceActivityControl |-> _instanceActivityControl,
                       virtualServerInstance |->
                          [vsInstanceType |-> virtualserverinstance["vsInstanceType"],
                           associatedClients |->
                               virtualserverinstance["associatedClients"]]]]]

\* the document the server holds once it has taken the posted properties
Posted(json) ==
    [instance |-> json.instanceProperties.instance,
     instanceActivityControl |-> json.instanceProperties.instanceActivityControl,
     virtualServerInstance |-> json.instanceProperties.virtualServerInstance]

\* Instance._set_instance_properties: assigns value at attr_name, posts the
\* properties document, and reads the properties back once the server has
\* acknowledged; ack is the server's answer
_set_instance_properties(attr_name, value, ack) ==
    IF _virtualserverinstance = Unset
    THEN /\ raised' = AttributeError("_virtualserverinstance")
         /\ UNCHANGED <<server, fields>>
    ELSE
    \E assigned \in {[k \in DOMAIN _virtualserverinstance \cup {"associatedClients"} |->
                        IF k = "associatedClients" THEN value
                        ELSE _virtualserverinstance[k]]} :
    \E request \in {_get_instance_properties_json(assigned)} :
        IF request.raised # NoException
        THEN /\ raised' = request.raised
             /\ UNCHANGED <<server, fields>>
        ELSE IF ~ack
        THEN /\ raised' = SDKException("Instance", "102", "Failed to update properties")
             /\ UNCHANGED <<server, fields>>
        ELSE /\ server' = Posted(request.json)
             /\ raised' = NoException
             /\ _get_instance_properties([success |-> TRUE, properties |-> server'],
                                         assigned)

RECURSIVE GroupsAsGroups(_, _, _)
\* a second loop that describes a client group by client_group_json
GroupsAsGroups(clients_list, client_json_list, log) ==
    IF clients_list = <<>>
    THEN [raised |-> NoException, client_json_list |-> client_json_list,
          lookups |-> log]
    ELSE
    LET client_name == Head(clients_list)
        common_json == [srmReportSet |-> 0, type |-> 0, srmReportType |-> 0,
                        clientSidePackage |-> TRUE, _type_ |-> 28,
                        consumeLicense |-> TRUE]
        with_name == common_json @@ ("clientName" :> client_name)
        client_group_json == [clientGroupName |-> client_name]
        log1 == Append(log, <<"has_client", client_name>>)
        log2 == Append(log1, <<"has_clientgroup", client_name>>)
    IN  IF has_client(client_name)
        THEN GroupsAsGroups(Tail(clients_list),
                            Append(client_json_list, [client |-> with_name]), log1)
        ELSE IF has_clientgroup(client_name)
        THEN GroupsAsGroups(Tail(clients_list),
                            Append(client_json_list,
                                   [clientGroup |-> client_group_json]), log2)
        ELSE [raised |-> SDKException("Instance", "105", ""),
              client_json_list |-> client_json_list, lookups |-> log2]

RECURSIVE member_servers(_, _, _)
\* the second loop of the setter: client_json_list built so far, lookups made
member_servers(clients_list, client_json_list, log) ==
    IF clients_list = <<>>
    THEN [raised |-> NoException, client_json_list |-> client_json_list,
          lookups |-> log]
    ELSE
    LET client_name == Head(clients_list)
        common_json == [srmReportSet |-> 0, type |-> 0, srmReportType |-> 0,
                        clientSidePackage |-> TRUE, _type_ |-> 28,
                        consumeLicense |-> TRUE]
        with_name == common_json @@ ("clientName" :> client_name)
        log1 == Append(log, <<"has_client", client_name>>)
        log2 == Append(log1, <<"has_clientgroup", client_name>>)
    IN  IF has_client(client_name)
        THEN member_servers(Tail(clients_list),
                            Append(client_json_list, [client |-> with_name]), log1)
        ELSE IF has_clientgroup(client_name)
        THEN member_servers(Tail(clients_list),
                            Append(client_json_list, [client |-> with_name]), log2)
        ELSE [raised |-> SDKException("Instance", "105", ""),
              client_json_list |-> client_json_list, lookups |-> log2]

\* the first loop of the setter: isinstance(client_name, str) for every entry
all_str(clients_list) ==
    \A i \in 1..Len(clients_list) : clients_list[i].type = "str"

\* VirtualServerInstance.associated_clients (setter)
set_associated_clients(clients_list, ack) ==
    IF ~all_str(clients_list)
    THEN /\ raised' = SDKException("Instance", "105", "")
         /\ sent' = <<>>
         /\ lookups' = <<>>
         /\ UNCHANGED <<server, fields>>
    ELSE
    \E m \in {member_servers(clients_list, <<>>, <<>>)} :
        /\ lookups' = m.lookups
        /\ IF m.raised # NoException
           THEN /\ raised' = m.raised
                /\ sent' = <<>>
                /\ UNCHANGED <<server, fields>>
           ELSE \E associatedClients \in {[memberServers |-> m.client_json_list]} :
                /\ sent' = <<[attr_name |-> "_virtualserverinstance['associatedClients']",
                              value |-> associatedClients]>>
                /\ _set_instance_properties("_virtualserverinstance['associatedClients']",
                                            associatedClients, ack)

\* VirtualServerInstance.co_ordinator, on the value of self._asscociatedclients
co_ordinator(asscociatedclients) ==
    LET g == associated_clients(asscociatedclients)
    IN  IF g.raised # NoException THEN g
        ELSE \* _associated_clients['Clients']: the value is a list or None
             IF g.ret = None \/ g.ret.type = "list"
             THEN [ret |-> None, raised |-> TypeError]
             ELSE [ret |-> g.ret.value["Clients"][1], raised |-> NoException]

(***************************************************************************)
(* The state machine.                                                      *)
(***************************************************************************)
Bound == obj # None /\ obj # Unbound

Init ==
    /\ server \in InitialDocuments
    /\ obj = __new__("virtualcenter")
    /\ _properties = server
    /\ _instance = server.instance
    /\ _instanceActivityControl = server.instanceActivityControl
    /\ _virtualserverinstance =
           IF "virtualServerInstance" \in DOMAIN server
           THEN server["virtualServerInstance"] ELSE Unset
    /\ _vsinstancetype =
           IF "virtualServerInstance" \in DOMAIN server
           THEN server["virtualServerInstance"]["vsInstanceType"] ELSE None
    /\ _asscociatedclients =
           IF "virtualServerInstance" \in DOMAIN server
           THEN server["virtualServerInstance"]["associatedClients"] ELSE None
    /\ call = [op |-> "__new__", instance_name |-> "virtualcenter"]
    /\ ret = None
    /\ raised = NoException
    /\ sent = <<>>
    /\ lookups = <<>>

\* VirtualServerInstance(agent_object, instance_name): __new__, then the
\* __init__ of Instance, which reads the properties, when an object was made
Construct(instance_name, response) ==
    /\ call' = [op |-> "__new__", instance_name |-> instance_name]
    /\ IF __new__(instance_name) = None
       THEN /\ obj' = None
            /\ raised' = NoException
            /\ Clear
       ELSE IF properties_raised(response) # NoException
       THEN /\ obj' = Unbound
            /\ raised' = properties_raised(response)
            /\ Clear
       ELSE /\ obj' = __new__(instance_name)
            /\ raised' = NoException
            /\ _get_instance_properties(response, Unset)
    /\ ret' = None
    /\ sent' = <<>>
    /\ lookups' = <<>>
    /\ UNCHANGED server

Refresh(response) ==
    /\ Bound
    /\ call' = [op |-> "_get_instance_properties", response |-> response]
    /\ raised' = properties_raised(response)
    /\ _get_instance_properties(response, _virtualserverinstance)
    /\ ret' = None
    /\ sent' = <<>>
    /\ lookups' = <<>>
    /\ UNCHANGED <<server, obj>>

GetAssociatedClients ==
    /\ Bound
    /\ call' = [op |-> "associated_clients"]
    /\ \E r \in {associated_clients(_asscociatedclients)} :
          /\ ret' = r.ret
          /\ raised' = r.raised
    /\ sent' = <<>>
    /\ lookups' = <<>>
    /\ UNCHANGED <<server, obj, fields>>

\* whether the setter gets as far as posting the list to the server; the
\* server's answer matters to the call only then
Posts(clients_list) ==
    /\ all_str(clients_list)
    /\ \A i \in 1..Len(clients_list) :
          has_client(clients_list[i]) \/ has_clientgroup(clients_list[i])
    /\ _virtualserverinstance # Unset
    /\ "vsInstanceType" \in DOMAIN _virtualserverinstance

SetAssociatedClients(clients_list, ack) ==
    /\ Bound
    /\ ack \/ Posts(clients_list)
    /\ call' = [op |-> "associated_clients.setter", clients_list |-> clients_list]
    /\ set_associated_clients(clients_list, ack)
    /\ ret' = None
    /\ UNCHANGED obj

CoOrdinator ==
    /\ Bound
    /\ call' = [op |-> "co_ordinator"]
    /\ \E r \in {co_ordinator(_asscociatedclients)} :
          /\ ret' = r.ret
          /\ raised' = r.raised
    /\ sent' = <<>>
    /\ lookups' = <<>>
    /\ UNCHANGED <<server, obj, fields>>

\* modules, ids and messages an SDKException is created with
Modules == DOMAIN EXCEPTION_DICT \cup {"VirtualServer"}

Ids == UNION {DOMAIN EXCEPTION_DICT[m] : m \in DOMAIN EXCEPTION_DICT} \cup {"999"}

Messages == {"", "extra", "x", "Please check the credentials"}

RaiseSDKException(exception_module, exception_id, exception_message) ==
    /\ call' = [op |-> "SDKException", exception_module |-> exception_module,
                exception_id |-> exception_id,
                exception_message |-> exception_message]
    /\ raised' = SDKException(exception_module, exception_id, exception_message)
    /\ ret' = None
    /\ sent' = <<>>
    /\ lookups' = <<>>
    /\ UNCHANGED <<server, obj, fields>>

\* the properties of the instance are changed at the server by someone else
ServerChange(doc) ==
    /\ doc # server
    /\ server' = doc
    /\ call' = [op |-> "server"]
    /\ ret' = None
    /\ raised' = NoException
    /\ sent' = <<>>
    /\ lookups' = <<>>
    /\ UNCHANGED <<obj, fields>>

Next ==
    \/ \E r \in Responses(server) : Refresh(r)
    \/ GetAssociatedClients
    \/ \E l \in ClientLists, ack \in BOOLEAN : SetAssociatedClients(l, ack)
    \/ CoOrdinator

Spec == Init /\ [][Next]_vars

\* the instance read while someone else changes its properties at the server
NextServer ==
    \/ \E d \in ServerDocuments : ServerChange(d)
    \/ \E r \in Responses(server) : Refresh(r)
    \/ GetAssociatedClients
    \/ CoOrdinator

SpecServer == Init /\ [][NextServer]_vars

\* construction on its own: instances are created while the server changes
NextNew ==
    \/ \E n \in InstanceNames, r \in Responses(server) : Construct(n, r)
    \/ \E d \in ServerDocuments : ServerChange(d)

SpecNew == Init /\ [][NextNew]_vars

\* SDKException on its own: no instance exists, one exception is created
InitSDKException ==
    /\ server = GenericDocument
    /\ obj = Unbound
    /\ _properties = Unset
    /\ _instance = Unset
    /\ _instanceActivityControl = Unset
    /\ _virtualserverinstance = Unset
    /\ _vsinstancetype = Unset
    /\ _asscociatedclients = Unset
    /\ call = [op |-> "none"]
    /\ ret = None
    /\ raised = NoException
    /\ sent = <<>>
    /\ lookups = <<>>

NextSDKException ==
    /\ call.op = "none"
    /\ \E m \in Modules, i \in Ids, msg \in Messages : RaiseSDKException(m, i, msg)

SpecSDKException == InitSDKException /\ [][NextSDKException]_vars

(***************************************************************************)
(* Properties.                                                             *)
(***************************************************************************)
IsSetter(c) == c.op = "associated_clients.setter"

InCatalog(c) ==
    /\ c.op = "SDKException"
    /\ c.exception_module \in DOMAIN EXCEPTION_DICT
    /\ c.exception_id \in DOMAIN EXCEPTION_DICT[c.exception_module]

\* C1: an SDKException created for a (module, id) pair of the catalog has the
\* message base + newline + detail when both are non-empty, the detail when
\* the base is empty, and the base when no detail is given.
C1_Message ==
    InCatalog(call) =>
        LET base == EXCEPTION_DICT[call.exception_module][call.exception_id]
            detail == call.exception_message
        IN  /\ raised.kind = "SDKException"
            /\ (base # "" /\ detail # "") =>
                   raised.exception_message = base \o "\n" \o detail
            /\ (base = "" /\ detail # "") => raised.exception_message = detail
            /\ detail = "" => raised.exception_message = base
            /\ (call.exception_module = "Response" /\ call.exception_id = "101"
                    /\ detail = "") =>
                   raised.exception_message = "Response was not success"
            /\ (call.exception_module = "Job" /\ call.exception_id = "101"
                    /\ detail = "extra") =>
                   raised.exception_message = "Incorrect JobId\nextra"

C1_Witness ==
    /\ InCatalog(call)
    /\ call.exception_module = "Job"
    /\ call.exception_id = "101"
    /\ call.exception_message = "extra"
    /\ raised.kind = "SDKException"
    /\ raised.exception_message = "Incorrect JobId\nextra"

\* C2: the setter called with a list that holds a non-string entry fails with
\* an SDKException of the Instance module (the invalid-input error), has
\* handed no update to the server, and leaves server and instance as they were.
C2_NonStringEntry ==
    [][(IsSetter(call') /\ ~all_str(call'.clients_list)) =>
          /\ raised'.kind = "SDKException"
          /\ raised'.exception_module = "Instance"
          /\ sent' = <<>>
          /\ server' = server
          /\ fields' = fields]_vars

Resolves(client_name) == has_client(client_name) \/ has_clientgroup(client_name)

\* C3: the setter called with a list of strings one of which is neither a
\* client nor a client group fails with an SDKException of the Instance
\* module (not a failed catalog lookup) and has handed no update to the server.
C3_UnknownName ==
    [][(/\ IsSetter(call')
        /\ all_str(call'.clients_list)
        /\ \E i \in 1..Len(call'.clients_list) : ~Resolves(call'.clients_list[i])) =>
          /\ raised'.kind = "SDKException"
          /\ raised'.exception_module = "Instance"
          /\ sent' = <<>>
          /\ server' = server
          /\ fields' = fields]_vars

AllClients(clients_list) ==
    /\ all_str(clients_list)
    /\ \A i \in 1..Len(clients_list) : has_client(clients_list[i])

KnownNames == {virtual_center, ms_virtual_server, amazon, azure, azure_v2}

\* C5: construction compares instance_name with the known type names without
\* regard to letter case; "virtualcenter" in any case gives the VMware subtype.
C5_CaseInsensitive ==
    (/\ call.op = "__new__"
     /\ raised = NoException
     /\ lower(call.instance_name) = virtual_center) =>
        obj = Object("VMwareInstance")

\* C6: construction with an instance_name that is none of the five known type
\* names fails with an SDKException and never yields None.
C6_UnsupportedType ==
    (/\ call.op = "__new__"
     /\ lower(call.instance_name) \notin KnownNames) =>
        /\ raised.kind = "SDKException"
        /\ obj # None

HasMembers(n) ==
    /\ _asscociatedclients # None
    /\ "memberServers" \in DOMAIN _asscociatedclients
    /\ Len(_asscociatedclients["memberServers"]) = n
    /\ \A i \in 1..n : "client" \in DOMAIN _asscociatedclients["memberServers"][i]

\* C7: co_ordinator returns the first associated client's name; with one
\* associated client it returns that name, with none it fails with an
\* SDKException.
C7_CoOrdinator ==
    call.op = "co_ordinator" =>
        /\ HasMembers(1) =>
              /\ raised = NoException
              /\ ret = _asscociatedclients["memberServers"][1]["client"]["clientName"]
        /\ HasMembers(0) => raised.kind = "SDKException"

\* C8: a successful setter call hands the server exactly one update, at the
\* associatedClients entry of _virtualserverinstance, whose memberServers has
\* one client descriptor with the fixed fields per given name, in the given
\* order; has_client is asked before has_clientgroup for every name.
C8_Submission ==
    (IsSetter(call) /\ raised = NoException) =>
        /\ Len(sent) = 1
        /\ sent[1].attr_name = "_virtualserverinstance['associatedClients']"
        /\ DOMAIN sent[1].value = {"memberServers"}
        /\ Len(sent[1].value["memberServers"]) = Len(call.clients_list)
        /\ \A i \in 1..Len(call.clients_list) :
              sent[1].value["memberServers"][i] = ClientEntity(call.clients_list[i])
        /\ \A i \in 1..Len(lookups) :
              lookups[i][1] = "has_clientgroup" =>
                  /\ i > 1
                  /\ lookups[i - 1] = <<"has_client", lookups[i][2]>>
        /\ \A i \in 1..Len(call.clients_list) :
              \E j \in 1..Len(lookups) :
                  lookups[j] = <<"has_client", call.clients_list[i]>>

C8_Witness ==
    /\ IsSetter(call)
    /\ raised = NoException
    /\ call.clients_list = <<PyStr("g1"), PyStr("c1")>>
    /\ Len(sent) = 1
    /\ server["virtualServerInstance"]["associatedClients"] = sent[1].value

\* C9: the getter always returns a sequence: the empty one when the
\* associated-clients block has no memberServers key, and never None.
C9_GetterSequence ==
    (call.op = "associated_clients" /\ raised = NoException) =>
        /\ ret # None
        /\ "memberServers" \notin DOMAIN _asscociatedclients => ret = PyList(<<>>)

\* C10: after a fetch of the properties that got a document from the server,
\* the type tag and the associated-clients block are those of the document's
\* virtualServerInstance entry when it has one, and None when it has none,
\* in which case the fetch raises nothing; nothing of an earlier fetch stays.
C10_Projection ==
    (call.op = "_get_instance_properties" /\ call.response.success) =>
        LET p == call.response.properties
        IN  /\ _properties = p
            /\ "virtualServerInstance" \notin DOMAIN p =>
                  /\ raised = NoException
                  /\ _vsinstancetype = None
                  /\ _asscociatedclients = None
            /\ "virtualServerInstance" \in DOMAIN p =>
                  LET vsi == p["virtualServerInstance"]
                  IN  /\ raised = NoException =>
                            /\ _vsinstancetype = vsi["vsInstanceType"]
                            /\ _asscociatedclients = vsi["associatedClients"]
                      /\ raised # NoException =>
                            /\ _vsinstancetype = None
                                  \/ _vsinstancetype = vsi["vsInstanceType"]
                            /\ _asscociatedclients = None

C10_Witness ==
    /\ call.op = "_get_instance_properties"
    /\ call.response.success
    /\ "virtualServerInstance" \notin DOMAIN call.response.properties
    /\ _virtualserverinstance # Unset
    /\ _vsinstancetype = None
    /\ _asscociatedclients = None

====
